---- MODULE Spec2Model ----
(***************************************************************************)
(* alx-polly. The request middleware (src/middleware.ts): the in-memory    *)
(* per-IP rate limiter isRateLimited over the module-level Map ipHits, the *)
(* async function middleware that consults it before it awaits             *)
(* updateSession (src/lib/supabase/middleware.ts), and the matcher that     *)
(* selects the requests it runs for. The poll server actions                *)
(* (src/unnamed/part_002) with the sanitizers of src/lib/utils.ts, over the *)
(* tables polls and votes of the README. The form PollCreateForm           *)
(* (src/app/(dashboard)/polls/PollActions.tsx) and its options state.      *)
(*                                                                         *)
(* Strings are sequences of symbols, so that split(','), trim(),           *)
(* startsWith() and replace() are computed as the code computes them; an   *)
(* IP address and a path segment are one symbol each.                      *)
(***************************************************************************)
EXTENDS Integers, Sequences, FiniteSets, TLC

VARIABLES
    now,        \* the value Date.now() returns (ms)
    ipHits,     \* the Map ipHits: a set of entries [ip, count, resetAt]
    pc,         \* per request: "idle", "start", "session", "done"
    req,        \* per request: [method, path, ip, hasXff, xff]
    resp,       \* per request: "none", "429", "next", "redirect", "route"
    winStart,   \* per key: Date.now() of the call that opened its window, or -1
    callsInWin, \* per key: calls of isRateLimited since (and with) that call
    solo,       \* per key: the table of a limiter that sees this key's calls only
    admitLog,   \* per key and timestamp: the calls isRateLimited admitted
    posts,      \* per address and route: the POSTs to /login, /create received
    rls,        \* whether the row level security policies of the README are installed
    polls,      \* the table polls: a set of rows [id, user_id, question, options]
    votes,      \* the table votes: a set of rows [poll_id, user_id, option_index]
    last,       \* the last server action call: its arguments and what it returned
    san,        \* a call of a sanitizer: its argument and, once it returned, its result
    ui          \* PollCreateForm: the state options and the updates not yet rendered

mwVars == <<now, ipHits, pc, req, resp, winStart, callsInWin, solo>>
dbVars == <<rls, polls, votes, last>>
fnVars == <<san, ui>>
vars == <<mwVars, admitLog, posts, dbVars, fnVars>>

----------------------------------------------------------------------------
(* Program constants *)

RATE_LIMIT_WINDOW_MS == 60000
RATE_LIMIT_MAX == 10

----------------------------------------------------------------------------
(* Bounds *)

\* request slots of the general specification
MaxReq == 1
\* Date.now() takes the values 0 and RATE_LIMIT_WINDOW_MS + d, d in 0..MaxOffset
MaxOffset == 1
\* requests are accepted while the counts in the table plus the requests
\* waiting for the middleware stay below MaxHits
MaxHits == 12
\* concurrent requests of the concurrency specification
NumConc == 11
\* a text passed to sanitizeText is made of at most MaxParts pieces
MaxParts == 4
\* the payload inside a wrapper has at most MaxPayload characters
MaxPayload == 2
\* an array passed to sanitizeStringArray has at most MaxItems elements
MaxItems == 3
\* addOption is called while the form will hold fewer than MaxOptions options
MaxOptions == 3
\* state updates queued before React renders again
MaxPending == 2
\* the ids a poll can get: the table holds at most MaxPolls rows
MaxPolls == 2
\* votes are accepted while the table votes holds fewer than MaxVotes rows
MaxVotes == 1

----------------------------------------------------------------------------
(* Strings *)

IP_A == <<"1">>
IP_B == <<"5">>
EMPTY == <<>>
UNKNOWN == <<"u", "n", "k", "n", "o", "w", "n">>

Keys == {IP_A, IP_B, UNKNOWN}

LOGIN == <<"/login">>
CREATE == <<"/create">>
AUTH == <<"/auth">>
POLLS == <<"/polls">>

\* s.split(',')[0]: the characters before the first comma
RECURSIVE SplitFirst(_)
SplitFirst(s) ==
    IF s = <<>> \/ Head(s) = "," THEN <<>>
    ELSE <<Head(s)>> \o SplitFirst(Tail(s))

RECURSIVE TrimStart(_)
TrimStart(s) ==
    IF s # <<>> /\ Head(s) = " " THEN TrimStart(Tail(s)) ELSE s

RECURSIVE TrimEnd(_)
TrimEnd(s) ==
    IF s # <<>> /\ s[Len(s)] = " " THEN TrimEnd(SubSeq(s, 1, Len(s) - 1)) ELSE s

\* s.trim()
Trim(s) == TrimEnd(TrimStart(s))

----------------------------------------------------------------------------
(* The Map ipHits *)

MapHas(m, k) == \E e \in m : e.ip = k

MapGet(m, k) == CHOOSE e \in m : e.ip = k

\* a set that leaves the key's old entry in place
MapSetKeepsOld(m, k, v) ==
    m \cup {[ip |-> k, count |-> v.count, resetAt |-> v.resetAt]}

\* a set that replaces the whole table
MapSetClobbers(m, k, v) ==
    {[ip |-> k, count |-> v.count, resetAt |-> v.resetAt]}

MapSet(m, k, v) ==
    {e \in m : e.ip # k} \cup {[ip |-> k, count |-> v.count, resetAt |-> v.resetAt]}

----------------------------------------------------------------------------
(* isRateLimited, src/middleware.ts:41-62 *)

\* record.resetAt < now
WindowExpired(record, t) == record.resetAt < t

\* { count: 1, resetAt: now + RATE_LIMIT_WINDOW_MS }
NewRecord(t) == [count |-> 1, resetAt |-> t + RATE_LIMIT_WINDOW_MS]

\* record.count += 1: record is the object the Map holds, so the Map's entry
\* changes with it
\* an increment that also pushes the end of the window back
IncrementCountExtends(m, ip) ==
    MapSet(m, ip, [count |-> MapGet(m, ip).count + 1,
                   resetAt |-> MapGet(m, ip).resetAt + RATE_LIMIT_WINDOW_MS])

IncrementCount(m, ip) ==
    MapSet(m, ip, [count |-> MapGet(m, ip).count + 1,
                   resetAt |-> MapGet(m, ip).resetAt])

\* the check with >= for >
LimitExceededAtMax(record) == record.count >= RATE_LIMIT_MAX

\* record.count > RATE_LIMIT_MAX
LimitExceeded(record) == record.count > RATE_LIMIT_MAX

\* record a copy of the Map's entry: a rejected call's increment is not stored
isRateLimitedCopy(m, ip, t) ==
    IF ~MapHas(m, ip) \/ WindowExpired(MapGet(m, ip), t)
    THEN [hits |-> MapSet(m, ip, NewRecord(t)), ret |-> FALSE]
    ELSE LET m1 == IncrementCount(m, ip) IN
         IF LimitExceeded(MapGet(m1, ip))
         THEN [hits |-> m, ret |-> TRUE]
         ELSE [hits |-> MapSet(m1, ip, MapGet(m1, ip)), ret |-> FALSE]

\* an expired record is deleted and the call not counted
isRateLimitedEvicts(m, ip, t) ==
    IF ~MapHas(m, ip)
    THEN [hits |-> MapSet(m, ip, NewRecord(t)), ret |-> FALSE]
    ELSE IF WindowExpired(MapGet(m, ip), t)
    THEN [hits |-> {e \in m : e.ip # ip}, ret |-> FALSE]
    ELSE LET m1 == IncrementCount(m, ip) IN
         IF LimitExceeded(MapGet(m1, ip))
         THEN [hits |-> m1, ret |-> TRUE]
         ELSE [hits |-> MapSet(m1, ip, MapGet(m1, ip)), ret |-> FALSE]

\* the table after the call and the value returned
isRateLimited(m, ip, t) ==
    IF ~MapHas(m, ip) \/ WindowExpired(MapGet(m, ip), t)
    THEN [hits |-> MapSet(m, ip, NewRecord(t)), ret |-> FALSE]
    ELSE LET m1 == IncrementCount(m, ip) IN
         IF LimitExceeded(MapGet(m1, ip))
         THEN [hits |-> m1, ret |-> TRUE]
         ELSE [hits |-> MapSet(m1, ip, MapGet(m1, ip)), ret |-> FALSE]

----------------------------------------------------------------------------
(* middleware, src/middleware.ts:96-113 *)

\* a test of the path's beginning instead of the whole path
isProtectedPathPrefix(q) ==
    /\ q.method = "POST"
    /\ \/ Len(q.path) >= 1 /\ SubSeq(q.path, 1, 1) = LOGIN
       \/ Len(q.path) >= 1 /\ SubSeq(q.path, 1, 1) = CREATE

\* request.method === 'POST' && (pathname === '/login' || pathname === '/create')
isProtectedPath(q) ==
    q.method = "POST" /\ (q.path = LOGIN \/ q.path = CREATE)

\* the forwarded header taken before the connection address
ClientIpPrefersHeader(q) ==
    IF q.hasXff /\ Trim(SplitFirst(q.xff)) # EMPTY THEN Trim(SplitFirst(q.xff))
    ELSE IF q.ip # EMPTY THEN q.ip
    ELSE UNKNOWN

\* request.ip || request.headers.get('x-forwarded-for')?.split(',')[0]?.trim() || 'unknown'
ClientIp(q) ==
    IF q.ip # EMPTY THEN q.ip
    ELSE IF q.hasXff /\ Trim(SplitFirst(q.xff)) # EMPTY THEN Trim(SplitFirst(q.xff))
    ELSE UNKNOWN

\* pathname.startsWith(prefix)
StartsWith(path, prefix) ==
    Len(prefix) <= Len(path) /\ SubSeq(path, 1, Len(prefix)) = prefix

\* the response of updateSession for a request, given whether getUser found a user
\* a redirect for every request without a user, whatever its path
SessionResponseIgnoresPath(q, user) ==
    IF ~user THEN "redirect" ELSE "next"

SessionResponse(q, user) ==
    IF ~user /\ ~StartsWith(q.path, LOGIN) /\ ~StartsWith(q.path, AUTH)
    THEN "redirect" ELSE "next"

\* the alternatives of the matcher's negative lookahead that name a path
NEXT_STATIC == <<"/_next", "/static">>
NEXT_IMAGE == <<"/_next", "/image">>
FAVICON == <<"/favicon.ico">>
REGISTER == <<"/register">>
ImageExtensions == {".svg", ".png", ".jpg", ".jpeg", ".gif", ".webp"}

\* config.matcher: '/' followed by anything that does not begin with one of
\* the excluded names and does not end in an image extension (an extension
\* is the last symbol of a path)
matcher(path) ==
    /\ path # EMPTY
    /\ ~ \E p \in {NEXT_STATIC, NEXT_IMAGE, FAVICON, LOGIN, REGISTER} :
            StartsWith(path, p)
    /\ path[Len(path)] \notin ImageExtensions

----------------------------------------------------------------------------
(* The requests of the model *)

Req(m, p, ip, h, x) == [method |-> m, path |-> p, ip |-> ip, hasXff |-> h, xff |-> x]

Requests ==
    { Req("POST", LOGIN, IP_A, FALSE, EMPTY),
      Req("POST", CREATE, EMPTY, TRUE, <<" ", "5", " ", ",", "1">>),
      Req("GET", POLLS, IP_A, FALSE, EMPTY) }

NoRequest == Req("", EMPTY, EMPTY, FALSE, EMPTY)

\* requests that differ in method, path, connection address and header
MwRequests ==
    { Req("POST", LOGIN, IP_A, FALSE, EMPTY),
      Req("POST", CREATE, IP_A, TRUE, <<"5">>),
      Req("POST", CREATE, EMPTY, TRUE, <<" ", "5", " ", ",", "1">>),
      Req("POST", LOGIN, EMPTY, FALSE, EMPTY),
      Req("POST", CREATE, EMPTY, FALSE, EMPTY),
      Req("POST", CREATE, EMPTY, TRUE, <<" ", ",", "1">>),
      Req("GET", LOGIN, IP_A, FALSE, EMPTY),
      Req("POST", POLLS, IP_A, FALSE, EMPTY),
      Req("POST", LOGIN \o <<"/reset">>, IP_A, FALSE, EMPTY),
      Req("GET", AUTH \o <<"/callback">>, IP_A, FALSE, EMPTY) }

Times == {0} \cup {RATE_LIMIT_WINDOW_MS + d : d \in 0..MaxOffset}

RECURSIVE SumCounts(_)
SumCounts(m) ==
    IF m = {} THEN 0
    ELSE LET e == CHOOSE x \in m : TRUE IN e.count + SumCounts(m \ {e})

Waiting == Cardinality({r \in DOMAIN pc : pc[r] = "start"})

----------------------------------------------------------------------------
(* Actions *)

\* the clock moves on
Tick ==
    /\ \E t \in Times : t > now /\ now' = t
    /\ UNCHANGED <<ipHits, pc, req, resp, winStart, callsInWin, solo>>

\* a request reaches the server
Arrive(r, q) ==
    /\ pc[r] = "idle"
    /\ SumCounts(ipHits) + Waiting < MaxHits
    /\ pc' = [pc EXCEPT ![r] = "start"]
    /\ req' = [req EXCEPT ![r] = q]
    /\ resp' = [resp EXCEPT ![r] = "none"]
    /\ UNCHANGED <<now, ipHits, winStart, callsInWin, solo>>

\* the reference window of key k at time t: the call opens a window when there
\* is none or more than RATE_LIMIT_WINDOW_MS has passed since it was opened
OpensWindow(k, t) == winStart[k] < 0 \/ t - winStart[k] > RATE_LIMIT_WINDOW_MS

Observe(k, t) ==
    /\ winStart' = [winStart EXCEPT ![k] = IF OpensWindow(k, t) THEN t ELSE @]
    /\ callsInWin' = [callsInWin EXCEPT ![k] = IF OpensWindow(k, t) THEN 1 ELSE @ + 1]
    /\ solo' = [solo EXCEPT ![k] = isRateLimited(@, k, t).hits]

\* a rejection that does not return: the request goes on to updateSession
middlewareFallsThrough(r) ==
    /\ pc[r] = "start"
    /\ IF isProtectedPath(req[r])
       THEN LET ip == ClientIp(req[r])
                res == isRateLimited(ipHits, ip, now)
            IN /\ ipHits' = res.hits
               /\ Observe(ip, now)
       ELSE UNCHANGED <<ipHits, winStart, callsInWin, solo>>
    /\ pc' = [pc EXCEPT ![r] = "session"]
    /\ UNCHANGED <<now, req, resp>>

\* middleware up to its await: lines 98-109, run to completion
middleware(r) ==
    /\ pc[r] = "start"
    /\ IF isProtectedPath(req[r])
       THEN LET ip == ClientIp(req[r])
                res == isRateLimited(ipHits, ip, now)
            IN /\ ipHits' = res.hits
               /\ Observe(ip, now)
               /\ IF res.ret
                  THEN /\ pc' = [pc EXCEPT ![r] = "done"]
                       /\ resp' = [resp EXCEPT ![r] = "429"]
                  ELSE /\ pc' = [pc EXCEPT ![r] = "session"]
                       /\ UNCHANGED resp
       ELSE /\ pc' = [pc EXCEPT ![r] = "session"]
            /\ UNCHANGED <<ipHits, resp, winStart, callsInWin, solo>>
    /\ UNCHANGED <<now, req>>

\* return await updateSession(request)
updateSessionWith(r, user) ==
    /\ pc[r] = "session"
    /\ resp' = [resp EXCEPT ![r] = SessionResponse(req[r], user)]
    /\ pc' = [pc EXCEPT ![r] = "done"]
    /\ UNCHANGED <<now, ipHits, req, winStart, callsInWin, solo>>

\* auth.getUser() finds a user or none
updateSession(r) == \E user \in BOOLEAN : updateSessionWith(r, user)

\* a request the matcher excludes: the route answers it and the function
\* middleware is not called
NotMatched(r) ==
    /\ pc[r] = "start"
    /\ ~matcher(req[r].path)
    /\ pc' = [pc EXCEPT ![r] = "done"]
    /\ resp' = [resp EXCEPT ![r] = "route"]
    /\ UNCHANGED <<now, ipHits, req, winStart, callsInWin, solo>>

\* the response is sent; the slot takes the next request
Respond(r) ==
    /\ pc[r] = "done"
    /\ pc' = [pc EXCEPT ![r] = "idle"]
    /\ req' = [req EXCEPT ![r] = NoRequest]
    /\ resp' = [resp EXCEPT ![r] = "none"]
    /\ UNCHANGED <<now, ipHits, winStart, callsInWin, solo>>

----------------------------------------------------------------------------
(* Input sanitization (src/lib/utils.ts). A control character is one
   symbol. *)

ControlChars == {"NUL", "TAB", "LF", "DEL"}
JAVASCRIPT == <<"j", "a", "v", "a", "s", "c", "r", "i", "p", "t", ":">>
DATA == <<"d", "a", "t", "a", ":">>

\* the i flag of the protocol pattern, on the letters of the two names
Lower(c) ==
    CASE c = "J" -> "j" [] c = "A" -> "a" [] c = "V" -> "v" [] c = "S" -> "s"
      [] c = "C" -> "c" [] c = "R" -> "r" [] c = "I" -> "i" [] c = "P" -> "p"
      [] c = "T" -> "t" [] c = "D" -> "d" [] OTHER -> c

\* replace(/<[^>]*>/g, ""): from a '<' to the first '>' after it; a '<'
\* with no '>' after it stays
RECURSIVE StripTags(_)
StripTags(s) ==
    IF s = EMPTY THEN EMPTY
    ELSE IF s[1] = "<" /\ \E j \in 2..Len(s) : s[j] = ">"
         THEN LET j == CHOOSE j \in 2..Len(s) :
                          s[j] = ">" /\ \A i \in 2..(j - 1) : s[i] # ">"
              IN StripTags(SubSeq(s, j + 1, Len(s)))
         ELSE <<s[1]>> \o StripTags(Tail(s))

MatchesAt(s, p) == Len(s) >= Len(p) /\ \A i \in 1..Len(p) : Lower(s[i]) = p[i]

\* replace(/(javascript:|data:)/gi, ""): one pass from the left
RECURSIVE StripProtocols(_)
StripProtocols(s) ==
    IF s = EMPTY THEN EMPTY
    ELSE IF MatchesAt(s, JAVASCRIPT)
         THEN StripProtocols(SubSeq(s, Len(JAVASCRIPT) + 1, Len(s)))
    ELSE IF MatchesAt(s, DATA)
         THEN StripProtocols(SubSeq(s, Len(DATA) + 1, Len(s)))
    ELSE <<s[1]>> \o StripProtocols(Tail(s))

\* replace(/[\u0000-\u001F\u007F]/g, "")
IsPrintable(c) == c \notin ControlChars
StripControl(s) == SelectSeq(s, IsPrintable)

\* sanitizeText with the whitespace trimmed before the control characters
\* are removed
sanitizeTextTrimsFirst(input) ==
    IF input = EMPTY THEN EMPTY
    ELSE StripControl(Trim(StripProtocols(StripTags(input))))

\* sanitizeText; an absent form field reads as null, which the first line
\* treats as the empty string
sanitizeText(input) ==
    IF input = EMPTY THEN EMPTY
    ELSE Trim(StripControl(StripProtocols(StripTags(input))))

IsTruthy(str) == str # EMPTY

\* a value passed as inputs: an array of strings, or a value that is not
\* an array (null, undefined, a string)
JsArray(items) == [isArray |-> TRUE, items |-> items]
NotAnArray == [isArray |-> FALSE, items |-> <<>>]

\* sanitizeStringArray without its filter(Boolean)
sanitizeStringArrayKeepsEmpty(inputs) ==
    IF ~inputs.isArray THEN <<>>
    ELSE [i \in 1..Len(inputs.items) |-> Trim(sanitizeText(inputs.items[i]))]

\* sanitizeStringArray
sanitizeStringArray(inputs) ==
    IF ~inputs.isArray THEN <<>>
    ELSE SelectSeq([i \in 1..Len(inputs.items) |-> Trim(sanitizeText(inputs.items[i]))],
                   IsTruthy)

\* sanitizeText is called with the argument held in san
sanitizeTextCall ==
    /\ san.fn = "sanitizeText" /\ ~san.done
    /\ san' = [san EXCEPT !.done = TRUE, !.out = sanitizeText(san.arg)]
    /\ UNCHANGED ui

\* sanitizeStringArray is called with the argument held in san
sanitizeStringArrayCall ==
    /\ san.fn = "sanitizeStringArray" /\ ~san.done
    /\ san' = [san EXCEPT !.done = TRUE, !.out = sanitizeStringArray(san.arg)]
    /\ UNCHANGED ui

\* pieces of text: the characters of a tag, a tag, plain text, a blank, a control
\* character, and the protocol name data: whole and in two halves
Pieces ==
    { <<"<">>, <<">">>, <<"<", "b", ">">>, <<"x">>, <<" ">>, <<"NUL">>,
      <<"d", "a">>, <<"t", "a", ":">>, <<"D", "a", "T", "a", ":">> }

RECURSIVE Texts(_)
Texts(n) ==
    IF n = 0 THEN {EMPTY}
    ELSE {t \o p : t \in Texts(n - 1), p \in Pieces} \cup Texts(n - 1)

TextInputs == Texts(MaxParts)

\* the inputs of the test page: a payload X in a wrapper, then plain text Y
SCRIPT_OPEN == <<"<", "s", "c", "r", "i", "p", "t", ">">>
SCRIPT_CLOSE == <<"<", "/", "s", "c", "r", "i", "p", "t", ">">>
Payloads ==
    {EMPTY} \cup UNION {[1..n -> {"a", "(", "1", ")"}] : n \in 1..MaxPayload}
Trailers == {<<"H", "e", "l", "l", "o">>, <<"C", "l", "i", "c", "k">>, <<"T">>}
Wrappers == {"script", "javascript:", "data:"}

Wrap(w, X, Y) ==
    CASE w = "script" -> SCRIPT_OPEN \o X \o SCRIPT_CLOSE \o Y
      [] w = "javascript:" -> JAVASCRIPT \o X \o Y
      [] w = "data:" -> DATA \o X \o Y

\* the elements of the arrays passed to sanitizeStringArray
Items == {EMPTY, <<" ">>, <<"x">>, <<"<", "b", ">">>, <<" ", "y", " ">>}
ArrayInputs ==
    {NotAnArray, JsArray(<<>>)} \cup
    UNION {{JsArray(a) : a \in [1..n -> Items]} : n \in 1..MaxItems}

----------------------------------------------------------------------------
(* PollCreateForm (src/app/(dashboard)/polls/PollActions.tsx). The handlers
   of a render see the options of that render; setOptions queues an updater
   that React applies, in order, when it renders again. *)

Update(kind, idx, value) == [kind |-> kind, idx |-> idx, value |-> value]

\* the updater functions: opts.map(...), [...opts, ""], opts.filter(...)
ApplyUpdate(opts, u) ==
    CASE u.kind = "change" ->
            [i \in 1..Len(opts) |-> IF i - 1 = u.idx THEN u.value ELSE opts[i]]
      [] u.kind = "add" -> Append(opts, EMPTY)
      [] u.kind = "remove" ->
            IF u.idx + 1 \in 1..Len(opts)
            THEN SubSeq(opts, 1, u.idx) \o SubSeq(opts, u.idx + 2, Len(opts))
            ELSE opts

RECURSIVE ApplyAll(_, _)
ApplyAll(opts, us) ==
    IF us = <<>> THEN opts ELSE ApplyAll(ApplyUpdate(opts, Head(us)), Tail(us))

\* setOptions(updater)
setOptions(u) ==
    /\ Len(ui.pending) < MaxPending
    /\ ui' = [ui EXCEPT !.pending = Append(@, u)]

handleOptionChange(idx, value) == setOptions(Update("change", idx, value))

addOption ==
    /\ Len(ApplyAll(ui.options, ui.pending)) < MaxOptions
    /\ setOptions(Update("add", 0, EMPTY))

\* the test reads the options of the render the handler belongs to
removeOption(idx) ==
    IF Len(ui.options) > 2
    THEN setOptions(Update("remove", idx, EMPTY))
    ELSE UNCHANGED ui

\* React renders: the queued updaters are applied to the state in order
Render ==
    /\ ui.pending # <<>>
    /\ ui' = [options |-> ApplyAll(ui.options, ui.pending), pending |-> <<>>]

\* the rows of the rendered form, and what is typed into one
Rows == 0..(Len(ui.options) - 1)
Typed == {EMPTY, <<"a">>}

----------------------------------------------------------------------------
(* The poll server actions (src/unnamed/part_002) over the table polls of
   the README. Each runs with the caller's session: user is the caller, or
   null when there is no session or auth.getUser() fails. *)

Null == "null"
Users == {"u1", "u2"}
Callers == Users \cup {Null}
PollIds == 1..MaxPolls

INVALID_MSG == "Please provide a question and at least two options."
CREATE_LOGIN_MSG == "You must be logged in to create a poll."
UPDATE_LOGIN_MSG == "You must be logged in to update a poll."
NOT_AUTHENTICATED == "Not authenticated"
NOT_AUTHORIZED == "Not authorized to access this poll"
\* the messages of the errors the client library returns
AUTH_ERROR == "auth error"
DB_ERROR == "database error"
NO_ROWS == "JSON object requested, multiple (or no) rows returned"

Row(id, uid, q, o) == [id |-> id, user_id |-> uid, question |-> q, options |-> o]
NoPoll == Row(0, Null, EMPTY, <<>>)

Form(q, o) == [question |-> q, options |-> o]
NoForm == Form(EMPTY, <<>>)

\* form data: tags, protocol names, control characters, blanks, empty fields
FormInputs ==
    { Form(<<"Q">>, << <<"A">>, <<"B">> >>),
      Form(<<"<", "i", ">", "R", "<", "/", "i", ">", " ">>,
           << <<"A">>, EMPTY, <<"D", "a", "T", "a", ":">>, <<" ", "B", " ">> >>),
      Form(<<" ", "<", "b", ">", "d", "a", "t", "a", ":", "TAB">>, << <<"A">>, <<"B">> >>),
      Form(<<"Q">>, << <<"A">>, <<" ">>, <<"<", "b", ">", "<", "/", "b", ">">> >>) }

\* what fails during a call: nothing, auth.getUser() or the database query
Faults == {"none", "auth", "db"}

\* formData.get("question"), formData.getAll("options").filter(Boolean)
RawQuestion(f) == f.question
RawOptions(f) == JsArray(SelectSeq(f.options, IsTruthy))

\* const question = sanitizeText(rawQuestion), const options =
\* sanitizeStringArray(rawOptions), for each form of FormInputs
Sanitized ==
    [f \in FormInputs |-> Form(sanitizeText(RawQuestion(f)),
                               sanitizeStringArray(RawOptions(f)))]

\* if (!question || options.length < 2)
Rejects(question, options) == question = EMPTY \/ Len(options) < 2

Ret(p, e) == [poll |-> p, error |-> e]
Call(op, c, id, f, a, d, ret) ==
    [op |-> op, caller |-> c, id |-> id, form |-> f, index |-> 0, authErr |-> a,
     dbFails |-> d, ret |-> ret]
NoCall == Call("none", Null, 0, NoForm, FALSE, FALSE, Ret(NoPoll, Null))

\* supabase.auth.getUser(): data.user
GetUser(c, authErr) == IF authErr THEN Null ELSE c

\* the rows a statement of caller c can see, update or delete: all of them,
\* or with the policies installed those with auth.uid() = user_id
Allowed(c) == {row \in polls : ~rls \/ row.user_id = c}

\* createPoll without the two tests of getUser's result
createPollAnyCaller(c, f, authErr, dbFails) ==
    LET question == Sanitized[f].question
        options == Sanitized[f].options
        user == GetUser(c, authErr)
        Return(e) == last' = Call("createPoll", c, 0, f, authErr, dbFails, Ret(NoPoll, e))
    IN IF Rejects(question, options) THEN Return(INVALID_MSG) /\ UNCHANGED polls
       ELSE IF dbFails THEN Return(DB_ERROR) /\ UNCHANGED polls
       ELSE /\ \E id \in PollIds :
                  /\ \A row \in polls : row.id # id
                  /\ polls' = polls \cup {Row(id, user, question, options)}
            /\ Return(Null)

\* createPoll
createPoll(c, f, authErr, dbFails) ==
    LET question == Sanitized[f].question
        options == Sanitized[f].options
        user == GetUser(c, authErr)
        Return(e) == last' = Call("createPoll", c, 0, f, authErr, dbFails, Ret(NoPoll, e))
    IN IF Rejects(question, options) THEN Return(INVALID_MSG) /\ UNCHANGED polls
       ELSE IF authErr THEN Return(AUTH_ERROR) /\ UNCHANGED polls
       ELSE IF user = Null THEN Return(CREATE_LOGIN_MSG) /\ UNCHANGED polls
       ELSE IF dbFails THEN Return(DB_ERROR) /\ UNCHANGED polls
       ELSE /\ \E id \in PollIds :
                  /\ \A row \in polls : row.id # id
                  /\ polls' = polls \cup {Row(id, user, question, options)}
            /\ Return(Null)

\* getPollById without the comparison of user_id
getPollByIdAnyUser(c, id, authErr, dbFails) ==
    LET found == {row \in Allowed(c) : row.id = id}
        user == GetUser(c, authErr)
        Return(p, e) == last' = Call("getPollById", c, id, NoForm, authErr, dbFails, Ret(p, e))
    IN /\ IF dbFails THEN Return(NoPoll, DB_ERROR)
          ELSE IF found = {} THEN Return(NoPoll, NO_ROWS)
          ELSE IF user = Null THEN Return(NoPoll, NOT_AUTHENTICATED)
          ELSE \E data \in found : Return(data, Null)
       /\ UNCHANGED polls

\* getPollById
getPollById(c, id, authErr, dbFails) ==
    LET found == {row \in Allowed(c) : row.id = id}
        user == GetUser(c, authErr)
        Return(p, e) == last' = Call("getPollById", c, id, NoForm, authErr, dbFails, Ret(p, e))
    IN /\ IF dbFails THEN Return(NoPoll, DB_ERROR)
          ELSE IF found = {} THEN Return(NoPoll, NO_ROWS)
          ELSE IF user = Null THEN Return(NoPoll, NOT_AUTHENTICATED)
          ELSE \E data \in found :
                  IF data.user_id # user THEN Return(NoPoll, NOT_AUTHORIZED)
                  ELSE Return(data, Null)
       /\ UNCHANGED polls

\* deletePoll
deletePoll(c, id, dbFails) ==
    LET Return(e) == last' = Call("deletePoll", c, id, NoForm, FALSE, dbFails, Ret(NoPoll, e))
        deleted == {row \in Allowed(c) : row.id = id}
    IN IF dbFails THEN Return(DB_ERROR) /\ UNCHANGED <<polls, votes>>
       ELSE /\ polls' = polls \ deleted
            /\ votes' = {v \in votes : \A row \in deleted : v.poll_id # row.id}
            /\ Return(Null)

\* what the database answers to a vote for a poll_id that is not in polls
FK_ERROR == "insert or update on table \"votes\" violates foreign key constraint"

Vote(id, uid, idx) == [poll_id |-> id, user_id |-> uid, option_index |-> idx]

\* one option index below, two within and one above the options of the
\* valid forms of FormInputs
OptionIndexes == {-1, 0, 1, 2}

\* submitVote; the error of getUser is not read, and the foreign key is
\* checked against all of polls, policies or not
submitVote(c, id, idx, authErr, dbFails) ==
    LET user == GetUser(c, authErr)
        Return(e) ==
            last' = [Call("submitVote", c, id, NoForm, authErr, dbFails, Ret(NoPoll, e))
                        EXCEPT !.index = idx]
    IN /\ IF dbFails THEN Return(DB_ERROR) /\ UNCHANGED votes
          ELSE IF \A row \in polls : row.id # id
          THEN Return(FK_ERROR) /\ UNCHANGED votes
          ELSE /\ votes' = votes \cup {Vote(id, user, idx)}
               /\ Return(Null)
       /\ UNCHANGED polls

\* updatePoll without .eq("user_id", user.id)
updatePollAnyOwner(c, id, f, authErr, dbFails) ==
    LET question == Sanitized[f].question
        options == Sanitized[f].options
        user == GetUser(c, authErr)
        Return(e) == last' = Call("updatePoll", c, id, f, authErr, dbFails, Ret(NoPoll, e))
        matched == {row \in Allowed(c) : row.id = id}
    IN IF Rejects(question, options) THEN Return(INVALID_MSG) /\ UNCHANGED polls
       ELSE IF authErr THEN Return(AUTH_ERROR) /\ UNCHANGED polls
       ELSE IF user = Null THEN Return(UPDATE_LOGIN_MSG) /\ UNCHANGED polls
       ELSE IF dbFails THEN Return(DB_ERROR) /\ UNCHANGED polls
       ELSE /\ polls' = (polls \ matched) \cup
                           {Row(row.id, row.user_id, question, options) : row \in matched}
            /\ Return(Null)

\* updatePoll
updatePoll(c, id, f, authErr, dbFails) ==
    LET question == Sanitized[f].question
        options == Sanitized[f].options
        user == GetUser(c, authErr)
        Return(e) == last' = Call("updatePoll", c, id, f, authErr, dbFails, Ret(NoPoll, e))
        matched == {row \in Allowed(c) : row.id = id /\ row.user_id = user}
    IN IF Rejects(question, options) THEN Return(INVALID_MSG) /\ UNCHANGED polls
       ELSE IF authErr THEN Return(AUTH_ERROR) /\ UNCHANGED polls
       ELSE IF user = Null THEN Return(UPDATE_LOGIN_MSG) /\ UNCHANGED polls
       ELSE IF dbFails THEN Return(DB_ERROR) /\ UNCHANGED polls
       ELSE /\ polls' = (polls \ matched) \cup
                           {Row(row.id, row.user_id, question, options) : row \in matched}
            /\ Return(Null)

----------------------------------------------------------------------------
(* Specifications *)


\* no poll, no server action call
InitDb ==
    /\ rls = FALSE
    /\ polls = {}
    /\ votes = {}
    /\ last = NoCall

\* no sanitizer called
NoSan == [fn |-> "none", arg |-> <<>>, done |-> FALSE, out |-> <<>>]

\* useState(["", ""])
InitialOptions == <<EMPTY, EMPTY>>
InitUi == ui = [options |-> InitialOptions, pending |-> <<>>]

InitSan == san = NoSan

InitTable ==
    /\ InitUi
    /\ now = 0
    /\ ipHits = {}
    /\ winStart = [k \in Keys |-> -1]
    /\ callsInWin = [k \in Keys |-> 0]
    /\ solo = [k \in Keys |-> {}]
    /\ admitLog = [k \in Keys |-> [t \in Times |-> 0]]
    /\ posts = [k \in Keys |-> [p \in {LOGIN, CREATE} |-> 0]]

InitSlots ==
    /\ pc = [r \in 1..MaxReq |-> "idle"]
    /\ req = [r \in 1..MaxReq |-> NoRequest]
    /\ resp = [r \in 1..MaxReq |-> "none"]

Init ==
    /\ InitTable
    /\ InitDb
    /\ InitSan
    /\ InitSlots

Next ==
    \/ Tick /\ UNCHANGED <<admitLog, posts, dbVars, fnVars>>
    \/ \E r \in DOMAIN pc, q \in Requests : Arrive(r, q) /\ UNCHANGED <<admitLog, posts, dbVars, fnVars>>
    \/ \E r \in DOMAIN pc : middleware(r) /\ UNCHANGED <<admitLog, posts, dbVars, fnVars>>
    \/ \E r \in DOMAIN pc : updateSession(r) /\ UNCHANGED <<admitLog, posts, dbVars, fnVars>>
    \/ \E r \in DOMAIN pc : Respond(r) /\ UNCHANGED <<admitLog, posts, dbVars, fnVars>>

Spec == Init /\ [][Next]_vars

\* NumConc requests for the same fresh key, all received before the
\* middleware has run for any of them
ConcRequest == Req("POST", LOGIN, IP_A, FALSE, EMPTY)

InitConc ==
    /\ InitTable
    /\ InitDb
    /\ InitSan
    /\ pc = [r \in 1..NumConc |-> "start"]
    /\ req = [r \in 1..NumConc |-> ConcRequest]
    /\ resp = [r \in 1..NumConc |-> "none"]

NextConc ==
    \/ \E r \in DOMAIN pc : middleware(r) /\ UNCHANGED <<admitLog, posts, dbVars, fnVars>>
    \/ \E r \in DOMAIN pc : updateSession(r) /\ UNCHANGED <<admitLog, posts, dbVars, fnVars>>

SpecConc == InitConc /\ [][NextConc]_vars

\* the function middleware called for every request of MwRequests, inside
\* one window
NextMw ==
    \/ \E r \in DOMAIN pc, q \in MwRequests : Arrive(r, q) /\ UNCHANGED <<admitLog, posts, dbVars, fnVars>>
    \/ \E r \in DOMAIN pc : middleware(r) /\ UNCHANGED <<admitLog, posts, dbVars, fnVars>>
    \/ \E r \in DOMAIN pc : updateSession(r) /\ UNCHANGED <<admitLog, posts, dbVars, fnVars>>
    \/ \E r \in DOMAIN pc : Respond(r) /\ UNCHANGED <<admitLog, posts, dbVars, fnVars>>

SpecMw == Init /\ [][NextMw]_vars

\* the server actions called in any order by any caller, with the policies
\* of the README installed or not
InitPolls ==
    /\ InitTable
    /\ InitSan
    /\ InitSlots
    /\ rls \in BOOLEAN
    /\ polls = {}
    /\ votes = {}
    /\ last = NoCall

NextPolls ==
    \/ \E c \in Callers, f \in FormInputs, x \in Faults :
          createPoll(c, f, x = "auth", x = "db") /\ UNCHANGED <<mwVars, admitLog, posts, fnVars, rls, votes>>
    \/ \E c \in Callers, id \in PollIds, x \in Faults :
          getPollById(c, id, x = "auth", x = "db") /\ UNCHANGED <<mwVars, admitLog, posts, fnVars, rls, votes>>
    \/ \E c \in Callers, id \in PollIds, x \in Faults :
          deletePoll(c, id, x = "db") /\ UNCHANGED <<mwVars, admitLog, posts, fnVars, rls>>
    \/ \E c \in Callers, id \in PollIds, f \in FormInputs, x \in Faults :
          updatePoll(c, id, f, x = "auth", x = "db") /\ UNCHANGED <<mwVars, admitLog, posts, fnVars, rls, votes>>

SpecPolls == InitPolls /\ [][NextPolls]_vars

\* voting: polls are created and deleted by their owner u1, anyone votes
VoteForm == Form(<<"Q">>, << <<"A">>, <<"B">> >>)

NextVotes ==
    \/ createPoll("u1", VoteForm, FALSE, FALSE) /\ UNCHANGED <<mwVars, admitLog, posts, fnVars, rls, votes>>
    \/ \E id \in PollIds :
          deletePoll("u1", id, FALSE) /\ UNCHANGED <<mwVars, admitLog, posts, fnVars, rls>>
    \/ \E c \in {"u2", Null}, id \in PollIds, idx \in OptionIndexes, a, d \in BOOLEAN :
          /\ Cardinality(votes) < MaxVotes
          /\ submitVote(c, id, idx, a, d) /\ UNCHANGED <<mwVars, admitLog, posts, fnVars, rls>>

SpecVotes == InitPolls /\ [][NextVotes]_vars

\* the form in the browser
NextForm ==
    \/ \E idx \in Rows, value \in Typed :
          handleOptionChange(idx, value) /\ UNCHANGED <<mwVars, admitLog, posts, dbVars, san>>
    \/ addOption /\ UNCHANGED <<mwVars, admitLog, posts, dbVars, san>>
    \/ \E idx \in Rows : removeOption(idx) /\ UNCHANGED <<mwVars, admitLog, posts, dbVars, san>>
    \/ Render /\ UNCHANGED <<mwVars, admitLog, posts, dbVars, san>>

SpecForm == Init /\ [][NextForm]_vars

\* sanitizeText applied to every text of TextInputs
InitText ==
    /\ InitTable /\ InitDb /\ InitSlots
    /\ san \in {[fn |-> "sanitizeText", arg |-> t, done |-> FALSE, out |-> <<>>] :
                   t \in TextInputs}

NextText == sanitizeTextCall /\ UNCHANGED <<mwVars, admitLog, posts, dbVars>>

SpecText == InitText /\ [][NextText]_vars

\* sanitizeText applied to every wrapped payload
InitPayload ==
    /\ InitTable /\ InitDb /\ InitSlots
    /\ san \in {[fn |-> "sanitizeText", arg |-> Wrap(w, X, Y), done |-> FALSE,
                  out |-> <<>>, wrapper |-> w, payload |-> X, trailer |-> Y] :
                   w \in Wrappers, X \in Payloads, Y \in Trailers}

SpecPayload == InitPayload /\ [][NextText]_vars

\* sanitizeStringArray applied to every value of ArrayInputs
InitArray ==
    /\ InitTable /\ InitDb /\ InitSlots
    /\ san \in {[fn |-> "sanitizeStringArray", arg |-> a, done |-> FALSE, out |-> <<>>] :
                   a \in ArrayInputs}

NextArray == sanitizeStringArrayCall /\ UNCHANGED <<mwVars, admitLog, posts, dbVars>>

SpecArray == InitArray /\ [][NextArray]_vars

----------------------------------------------------------------------------
(* What a step is *)

\* the step is request r's call of isRateLimited for key k
Calls(r, k) ==
    /\ pc[r] = "start" /\ pc'[r] # "start"
    /\ isProtectedPath(req[r]) /\ ClientIp(req[r]) = k

\* ... and the call returned false / true
Admitted(r) == pc'[r] = "session"
Rejected(r) == pc'[r] = "done" /\ resp'[r] = "429"

KeysOf(m) == {e.ip : e \in m}

----------------------------------------------------------------------------
(* The claims *)

\* C1: the m-th call for a key inside one window is admitted for every
\* m <= RATE_LIMIT_MAX and the (RATE_LIMIT_MAX + 1)-th is rejected; a window is
\* opened by a call that finds no record or an expired one.
C1_AdmitsExactlyMax ==
    [][\A r \in DOMAIN pc, k \in Keys :
          Calls(r, k) =>
             /\ callsInWin'[k] <= RATE_LIMIT_MAX => Admitted(r)
             /\ callsInWin'[k] = RATE_LIMIT_MAX + 1 => Rejected(r)]_vars

\* the (RATE_LIMIT_MAX + 1)-th call of a window has been answered with 429
C1_Witness ==
    \E r \in DOMAIN pc :
        /\ pc[r] = "done" /\ resp[r] = "429"
        /\ callsInWin[ClientIp(req[r])] = RATE_LIMIT_MAX + 1

\* C2: a call whose Date.now() equals the record's resetAt starts a new
\* window: it is admitted and the record becomes {1, now + window}.
C2_ResetAtBoundary ==
    [][\A r \in DOMAIN pc, k \in Keys :
          (Calls(r, k) /\ MapHas(ipHits, k) /\ MapGet(ipHits, k).resetAt = now) =>
             /\ Admitted(r)
             /\ MapGet(ipHits', k).count = 1
             /\ MapGet(ipHits', k).resetAt = now + RATE_LIMIT_WINDOW_MS]_vars

\* C3: once RATE_LIMIT_WINDOW_MS has elapsed since the call that created the
\* key's record, the next call for the key is admitted and leaves count = 1.
C3_ResetAfterWindow ==
    [][\A r \in DOMAIN pc, k \in Keys :
          (Calls(r, k) /\ MapHas(ipHits, k)
             /\ now - winStart[k] >= RATE_LIMIT_WINDOW_MS) =>
             /\ Admitted(r)
             /\ MapGet(ipHits', k).count = 1]_vars

\* C4: a call that finds the key's record unexpired and already over the
\* limit is rejected and still adds 1 to the stored count; after the m-th
\* call of a window the stored count is m, for every m.
C4_CountsWhileRejected ==
    [][/\ \A r \in DOMAIN pc, k \in Keys :
            (Calls(r, k) /\ MapHas(ipHits, k)
               /\ ~WindowExpired(MapGet(ipHits, k), now)
               /\ MapGet(ipHits, k).count > RATE_LIMIT_MAX) =>
               /\ Rejected(r)
               /\ MapGet(ipHits', k).count = MapGet(ipHits, k).count + 1
       /\ \A e \in ipHits' : e.count = callsInWin'[e.ip]]_vars

\* a second rejection in the same window has been counted
C4_Witness ==
    \E r \in DOMAIN pc, e \in ipHits :
        /\ pc[r] = "done" /\ resp[r] = "429"
        /\ e.ip = ClientIp(req[r])
        /\ e.count = RATE_LIMIT_MAX + 2

\* C5: the outcome of every call for a key is the outcome the call has in a
\* table that received this key's calls only.
C5_KeyIndependence ==
    [][\A r \in DOMAIN pc, k \in Keys :
          Calls(r, k) =>
             /\ Rejected(r) <=> isRateLimited(solo[k], k, now).ret
             /\ Admitted(r) <=> ~isRateLimited(solo[k], k, now).ret]_vars

\* a key has been rejected while another key had its own record
C5_Witness ==
    \E r \in DOMAIN pc :
        /\ pc[r] = "done" /\ resp[r] = "429"
        /\ KeysOf(ipHits) \ {ClientIp(req[r])} # {}

\* C7: every record has count >= 1 and no key has two records.
C7_CountPositiveOneRecord ==
    /\ \A e \in ipHits : e.count >= 1
    /\ \A e1, e2 \in ipHits : e1.ip = e2.ip => e1 = e2

\* two keys have records, one of them replaced after its window expired
C7_Witness ==
    /\ Cardinality(ipHits) = 2
    /\ \E e \in ipHits : e.resetAt > RATE_LIMIT_WINDOW_MS /\ e.count > 1

\* C8: resetAt is written only by a call that finds no record or an expired
\* one, and is then that call's now + RATE_LIMIT_WINDOW_MS; a call that finds
\* an unexpired record leaves resetAt as it is.
C8_ResetAtFixedInWindow ==
    [][\A k \in Keys :
          /\ (/\ MapHas(ipHits', k)
              /\ MapHas(ipHits, k) => MapGet(ipHits', k).resetAt # MapGet(ipHits, k).resetAt)
             => /\ \E r \in DOMAIN pc : Calls(r, k)
                /\ MapHas(ipHits, k) => WindowExpired(MapGet(ipHits, k), now)
                /\ MapGet(ipHits', k).resetAt = now + RATE_LIMIT_WINDOW_MS
          /\ (/\ \E r \in DOMAIN pc : Calls(r, k)
              /\ MapHas(ipHits, k)
              /\ MapGet(ipHits, k).resetAt >= now)
             => /\ MapHas(ipHits', k)
                /\ MapGet(ipHits', k).resetAt = MapGet(ipHits, k).resetAt]_vars

\* a record opened at RATE_LIMIT_WINDOW_MS was called again at a later time
C8_Witness ==
    \E e \in ipHits :
        /\ e.resetAt = RATE_LIMIT_WINDOW_MS + RATE_LIMIT_WINDOW_MS
        /\ e.count > 1
        /\ now > RATE_LIMIT_WINDOW_MS

\* C9: a call for key k leaves exactly one entry for k and changes no entry
\* of another key.
C9_OtherKeysUnchanged ==
    [][\A r \in DOMAIN pc, k \in Keys :
          Calls(r, k) =>
             /\ Cardinality({e \in ipHits' : e.ip = k}) = 1
             /\ {e \in ipHits' : e.ip # k} = {e \in ipHits : e.ip # k}]_vars

\* both keys have been called more than once
C9_Witness ==
    /\ Cardinality(KeysOf(ipHits)) = 2
    /\ \A e \in ipHits : e.count > 1

\* C10: no step removes a key from the table, and a record changes only in a
\* call for its own key.
C10_NoEviction ==
    [][/\ KeysOf(ipHits) \subseteq KeysOf(ipHits')
       /\ \A e \in ipHits :
             e \in ipHits' \/ \E r \in DOMAIN pc : Calls(r, e.ip)]_vars

\* an expired record is in the table while another key's record is live
C10_Witness ==
    /\ \E e \in ipHits : e.resetAt < now
    /\ \E e \in ipHits : e.resetAt > now

----------------------------------------------------------------------------
(* Concurrent requests, under SpecConc *)

Checked == {r \in DOMAIN pc : pc[r] # "start"}
Blocked == {r \in DOMAIN pc : pc[r] = "done" /\ resp[r] = "429"}

\* C6: of the concurrent requests for one fresh key, the middleware admits
\* RATE_LIMIT_MAX at most and rejects the rest, and the stored count is the
\* number of requests checked: when all are checked, RATE_LIMIT_MAX are
\* admitted, NumConc - RATE_LIMIT_MAX rejected and the count is NumConc.
C6_ConcurrentExact ==
    LET c == Cardinality(Checked)
        b == Cardinality(Blocked)
    IN /\ c - b = (IF c <= RATE_LIMIT_MAX THEN c ELSE RATE_LIMIT_MAX)
       /\ c > 0 => /\ Cardinality(ipHits) = 1
                   /\ \A e \in ipHits : e.ip = IP_A /\ e.count = c
       /\ c = NumConc => /\ b = NumConc - RATE_LIMIT_MAX
                         /\ c - b = RATE_LIMIT_MAX

\* every request has been checked and at least one was rejected, while
\* admitted requests still await updateSession
C6_Witness ==
    /\ Cardinality(Checked) = NumConc
    /\ Cardinality(Blocked) >= 1
    /\ \E r \in DOMAIN pc : pc[r] = "session"

----------------------------------------------------------------------------
(* The middleware, under SpecMw *)

\* request r leaves the synchronous part of middleware in this step
Handled(r) == pc[r] = "start" /\ pc'[r] # "start"

\* the reference limiter rejects the call just counted for key k
OverLimit(k) == callsInWin'[k] > RATE_LIMIT_MAX

\* C11: a request the limiter rejects is answered 'Too Many Requests' (429)
\* without updateSession being called for it; every other request goes to
\* updateSession and is answered with what updateSession returns.
C11_ForwardIffNotRejected ==
    [][\A r \in DOMAIN pc :
          /\ Handled(r) =>
                IF isProtectedPath(req[r]) /\ OverLimit(ClientIp(req[r]))
                THEN pc'[r] = "done" /\ resp'[r] = "429"
                ELSE pc'[r] = "session" /\ resp'[r] = "none"
          /\ (pc[r] # "done" /\ pc'[r] = "done" /\ resp'[r] # "429") =>
                /\ pc[r] = "session"
                /\ \E user \in BOOLEAN : resp'[r] = SessionResponse(req[r], user)
          /\ (pc[r] = "session" \/ pc'[r] = "session") => resp'[r] # "429"]_vars

\* one request has been answered 429 straight from the limiter
C11_Witness ==
    \E r \in DOMAIN pc :
        /\ pc[r] = "done" /\ resp[r] = "429"
        /\ callsInWin[ClientIp(req[r])] = RATE_LIMIT_MAX + 1

\* the claim's own reading of "protected"
PostToLoginOrCreate(q) ==
    q.method = "POST" /\ q.path \in {<<"/login">>, <<"/create">>}

\* C12: a request that is not a POST to exactly /login or /create leaves the
\* rate-limit table unchanged and goes on to updateSession; no such request
\* is ever answered with 429.
C12_OnlyProtectedChecked ==
    [][\A r \in DOMAIN pc :
          /\ (Handled(r) /\ ~PostToLoginOrCreate(req[r])) =>
                /\ ipHits' = ipHits
                /\ pc'[r] = "session"
          /\ resp'[r] = "429" => PostToLoginOrCreate(req'[r])]_vars

\* a request outside the protected routes passed while its address was over
\* the limit
C12_Witness ==
    \E r \in DOMAIN pc, e \in ipHits :
        /\ pc[r] = "session"
        /\ ~PostToLoginOrCreate(req[r])
        /\ req[r].path = <<"/login", "/reset">>
        /\ e.ip = req[r].ip /\ e.count > RATE_LIMIT_MAX

\* t is s without its leading and trailing blanks
IsTrimOf(t, s) ==
    \E i \in 1..Len(s) + 1, j \in 0..Len(s) :
        /\ t = SubSeq(s, i, j)
        /\ \A p \in 1..Len(s) : (p < i \/ p > j) => s[p] = " "
        /\ t # <<>> => t[1] # " " /\ t[Len(t)] # " "

\* e is the part of s before its first comma
IsFirstEntry(e, s) ==
    \E n \in 0..Len(s) :
        /\ e = SubSeq(s, 1, n)
        /\ \A p \in 1..n : s[p] # ","
        /\ n < Len(s) => s[n + 1] = ","

\* k is the key the claim gives request q
IsLimiterKey(k, q) ==
    IF q.ip # <<>> THEN k = q.ip
    ELSE IF q.hasXff /\ \E n \in 0..Len(q.xff) :
                           /\ IsFirstEntry(SubSeq(q.xff, 1, n), q.xff)
                           /\ ~IsTrimOf(<<>>, SubSeq(q.xff, 1, n))
         THEN \E n \in 0..Len(q.xff) :
                 /\ IsFirstEntry(SubSeq(q.xff, 1, n), q.xff)
                 /\ IsTrimOf(k, SubSeq(q.xff, 1, n))
         ELSE k = <<"u", "n", "k", "n", "o", "w", "n">>

\* the keys whose record the step writes
Written == {k \in Keys : {e \in ipHits' : e.ip = k} # {e \in ipHits : e.ip = k}}

\* C13: the record a checked request counts on is that of its connection
\* address, else of the trimmed first entry of x-forwarded-for when that is
\* not empty, else of 'unknown'; requests with neither value are all counted
\* on 'unknown' and rejected once that count exceeds RATE_LIMIT_MAX.
C13_LimiterKey ==
    [][\A r \in DOMAIN pc :
          (Handled(r) /\ isProtectedPath(req[r])) =>
             /\ \E k \in Keys : Written = {k} /\ IsLimiterKey(k, req[r])
             /\ (req[r].ip = <<>> /\ ~req[r].hasXff) =>
                   /\ Written = {UNKNOWN}
                   /\ OverLimit(UNKNOWN) => Rejected(r)
                   /\ ~OverLimit(UNKNOWN) => Admitted(r)]_vars

\* a request with neither value has been rejected on the shared count, and
\* a request has been counted on the first entry of its header
C13_Witness ==
    /\ \E r \in DOMAIN pc :
          /\ pc[r] = "done" /\ resp[r] = "429"
          /\ req[r].ip = <<>> /\ ~req[r].hasXff
    /\ MapHas(ipHits, IP_B)

----------------------------------------------------------------------------
(* The middleware as deployed: called for the requests config.matcher
   matches, under SpecDeployed *)

DeployedRequests ==
    { Req("POST", LOGIN, IP_A, FALSE, EMPTY),
      Req("POST", CREATE, IP_A, FALSE, EMPTY),
      Req("GET", POLLS, IP_A, FALSE, EMPTY),
      Req("GET", <<"/logo", ".png">>, IP_A, FALSE, EMPTY) }

PostsOf(k) == posts[k][LOGIN] + posts[k][CREATE]
SumPosts == PostsOf(IP_A) + PostsOf(IP_B) + PostsOf(UNKNOWN)

\* the request handled in this step is counted when it is a POST to /login
\* or /create
CountPost(r) ==
    posts' = IF PostToLoginOrCreate(req[r])
             THEN [posts EXCEPT ![req[r].ip][req[r].path] = @ + 1]
             ELSE posts

NextDeployed ==
    \/ \E r \in DOMAIN pc, q \in DeployedRequests :
          /\ SumPosts + Waiting < MaxHits
          /\ Arrive(r, q) /\ UNCHANGED <<admitLog, posts, dbVars, fnVars>>
    \/ \E r \in DOMAIN pc :
          /\ matcher(req[r].path)
          /\ middleware(r) /\ CountPost(r) /\ UNCHANGED <<admitLog, dbVars, fnVars>>
    \/ \E r \in DOMAIN pc : NotMatched(r) /\ CountPost(r) /\ UNCHANGED <<admitLog, dbVars, fnVars>>
    \/ \E r \in DOMAIN pc : updateSession(r) /\ UNCHANGED <<admitLog, posts, dbVars, fnVars>>
    \/ \E r \in DOMAIN pc : Respond(r) /\ UNCHANGED <<admitLog, posts, dbVars, fnVars>>

SpecDeployed == Init /\ [][NextDeployed]_vars

\* C14: under the exported matcher, for each of /login and /create the
\* 11th POST from one address within one window is answered with 429.
C14_BothRoutesLimited ==
    [][\A r \in DOMAIN pc, route \in {LOGIN, CREATE} :
          ( /\ Handled(r)
            /\ req[r].method = "POST" /\ req[r].path = route
            /\ posts'[req[r].ip][route] = RATE_LIMIT_MAX + 1 )
          => resp'[r] = "429"]_vars

----------------------------------------------------------------------------
(* The limiter over intervals of time, under SpecSlide *)

\* an admitted call is logged under its key and Date.now()
LogAdmit(r) ==
    admitLog' = IF isProtectedPath(req[r]) /\ Admitted(r)
                THEN [admitLog EXCEPT ![ClientIp(req[r])][now] = @ + 1]
                ELSE admitLog

NextSlide ==
    \/ Tick /\ UNCHANGED <<admitLog, posts, dbVars, fnVars>>
    \/ \E r \in DOMAIN pc : Arrive(r, ConcRequest) /\ UNCHANGED <<admitLog, posts, dbVars, fnVars>>
    \/ \E r \in DOMAIN pc : middleware(r) /\ LogAdmit(r) /\ UNCHANGED <<posts, dbVars, fnVars>>
    \/ \E r \in DOMAIN pc : updateSession(r) /\ UNCHANGED <<admitLog, posts, dbVars, fnVars>>
    \/ \E r \in DOMAIN pc : Respond(r) /\ UNCHANGED <<admitLog, posts, dbVars, fnVars>>

SpecSlide == Init /\ [][NextSlide]_vars

RECURSIVE SumLog(_, _)
SumLog(f, S) ==
    IF S = {} THEN 0
    ELSE LET u == CHOOSE u \in S : TRUE IN f[u] + SumLog(f, S \ {u})

\* the calls admitted for key k with timestamps in [a, a + RATE_LIMIT_WINDOW_MS)
AdmittedFrom(k, a) ==
    SumLog(admitLog[k], {u \in Times : a <= u /\ u < a + RATE_LIMIT_WINDOW_MS})

\* C15: for every key and every interval of length RATE_LIMIT_WINDOW_MS, at
\* most RATE_LIMIT_MAX calls with timestamps in the interval are admitted.
C15_SlidingWindow ==
    \A k \in Keys, a \in Times : AdmittedFrom(k, a) <= RATE_LIMIT_MAX

----------------------------------------------------------------------------
(* The poll server actions, under SpecPolls. The variable last holds the
   call made by the step that led to the state. *)

NoFault(call) == ~call.authErr /\ ~call.dbFails

\* the poll the call names exists and belongs to someone else
NamesForeignPoll(call) ==
    /\ call.caller \in Users
    /\ \E row \in polls : row.id = call.id /\ row.user_id # call.caller

\* C16 (as stated): getPollById returns a poll only to its authenticated
\* owner; with no user it returns {poll: null, error: 'Not authenticated'},
\* to a non-owner {poll: null, error: 'Not authorized to access this poll'}.
C16_GetPollByIdMessages ==
    (last.op = "getPollById" /\ NoFault(last)) =>
        /\ last.ret.poll # NoPoll =>
              last.caller \in Users /\ last.ret.poll.user_id = last.caller
        /\ last.caller = Null => last.ret = Ret(NoPoll, NOT_AUTHENTICATED)
        /\ NamesForeignPoll(last) => last.ret = Ret(NoPoll, NOT_AUTHORIZED)

\* the rows the query of the call returns
Returned(call) ==
    {row \in polls : row.id = call.id /\ (rls => row.user_id = call.caller)}

\* C16 (amended): getPollById returns a poll only to its authenticated
\* owner. When the query fails or returns no row (unknown id, or a row the
\* policies hide) the result is {poll: null, error: the query's message};
\* otherwise it is 'Not authenticated' with no user, 'Not authorized to
\* access this poll' for a non-owner, and the row for the owner.
C16_OwnerOnly ==
    last.op = "getPollById" =>
        /\ last.ret.poll # NoPoll =>
              /\ last.caller \in Users /\ ~last.authErr
              /\ last.ret.poll.user_id = last.caller
        /\ IF last.dbFails \/ Returned(last) = {}
           THEN /\ last.ret.poll = NoPoll
                /\ last.ret.error \notin {Null, NOT_AUTHENTICATED, NOT_AUTHORIZED}
           ELSE IF last.caller = Null \/ last.authErr
           THEN last.ret = Ret(NoPoll, NOT_AUTHENTICATED)
           ELSE IF NamesForeignPoll(last)
           THEN last.ret = Ret(NoPoll, NOT_AUTHORIZED)
           ELSE last.ret.poll \in Returned(last) /\ last.ret.error = Null

\* a signed-in user asked for another user's poll and was refused
C16_Witness ==
    /\ last.op = "getPollById" /\ NoFault(last)
    /\ NamesForeignPoll(last)
    /\ last.ret = Ret(NoPoll, NOT_AUTHORIZED)

\* C17: a poll is removed by deletePoll only when the caller is authenticated
\* and is the poll's owner.
C17_DeleteOnlyByOwner ==
    [][\A row \in polls :
          (last'.op = "deletePoll" /\ \A kept \in polls' : kept.id # row.id)
          => last'.caller = row.user_id]_vars

\* C18: the question and options of a poll change only through an updatePoll
\* call of the authenticated user whose id is the poll's user_id, and the
\* poll's user_id does not change.
C18_UpdateOnlyByOwner ==
    [][\A row \in polls, new \in polls' :
          (new.id = row.id /\ new # row) =>
              /\ last'.op = "updatePoll" /\ last'.id = row.id
              /\ last'.caller = row.user_id /\ ~last'.authErr
              /\ new.user_id = row.user_id]_vars

\* the sanitized form has a question and two options
ValidInput(f) == ~Rejects(Sanitized[f].question, Sanitized[f].options)

\* a signed-in user's valid update of another user's poll, which would have
\* changed it
ForeignUpdate ==
    /\ last.op = "updatePoll" /\ NoFault(last)
    /\ ValidInput(last.form)
    /\ NamesForeignPoll(last)

C18_Witness ==
    /\ ForeignUpdate
    /\ \E row \in polls :
          /\ row.id = last.id
          /\ row.question # Sanitized[last.form].question

\* C19: updatePoll called with valid input by an authenticated user who is
\* not the owner of pollId returns a non-null error.
C19_ForeignUpdateReportsError ==
    ForeignUpdate => last.ret.error # Null

\* the options of form f that are not empty after sanitization
NonEmptyOptions(f) ==
    {i \in 1..Len(f.options) : Trim(sanitizeText(f.options[i])) # <<>>}

\* the forms whose sanitized question is empty or that keep fewer than two
\* options
InvalidForms ==
    {f \in FormInputs :
        sanitizeText(f.question) = <<>> \/ Cardinality(NonEmptyOptions(f)) < 2}

InvalidInput(f) == f \in InvalidForms

\* C20: createPoll and updatePoll called with input whose sanitized question
\* is empty, or of which fewer than two options are non-empty after
\* sanitization, return INVALID_MSG and leave the table as it is; every
\* stored poll has a non-empty question and at least two options, none
\* empty.
C20_InvalidInputRejected ==
    [][/\ (last'.op \in {"createPoll", "updatePoll"} /\ InvalidInput(last'.form)) =>
             polls' = polls /\ last'.ret.error = INVALID_MSG
       /\ \A row \in polls' :
             /\ row.question # <<>>
             /\ Len(row.options) >= 2
             /\ \A i \in 1..Len(row.options) : row.options[i] # <<>>]_vars

\* the owner's update with options that are blank after sanitization was
\* rejected, and the poll is still there
C20_Witness ==
    /\ last.op = "updatePoll" /\ NoFault(last)
    /\ InvalidInput(last.form)
    /\ Len(last.form.options) >= 2 /\ last.form.question # <<>>
    /\ \E row \in polls : row.id = last.id /\ row.user_id = last.caller
    /\ last.ret.error = INVALID_MSG

\* C21: createPoll inserts a poll only for an authenticated caller and with
\* user_id equal to the caller's id; with no user or a getUser error it
\* returns an error and inserts nothing; every stored poll is owned by a
\* user.
C21_InsertOnlyForCaller ==
    [][/\ \A new \in polls' :
             (\A row \in polls : row.id # new.id) =>
                 /\ last'.op = "createPoll"
                 /\ last'.caller \in Users /\ ~last'.authErr
                 /\ new.user_id = last'.caller
       /\ (last'.op = "createPoll" /\ (last'.caller = Null \/ last'.authErr)) =>
             polls' = polls /\ last'.ret.error # Null
       /\ \A row \in polls' : row.user_id \in Users]_vars

\* a valid form sent without a session was refused while polls exist
C21_Witness ==
    /\ last.op = "createPoll" /\ NoFault(last)
    /\ last.caller = Null /\ ValidInput(last.form)
    /\ last.ret.error = CREATE_LOGIN_MSG
    /\ polls # {}

----------------------------------------------------------------------------
(* Voting, under SpecVotes *)

\* the call names no poll, or an index that is not one of the poll's options
BadVote(call) ==
    \A row \in polls :
        row.id = call.id => call.index \notin 0..(Len(row.options) - 1)

\* C22: submitVote returns an error and records no vote when pollId names no
\* poll or optionIndex is outside 0..(number of options - 1); every recorded
\* vote refers to an existing option of an existing poll.
C22_VoteForExistingOption ==
    [][/\ (last'.op = "submitVote" /\ BadVote(last')) =>
             votes' = votes /\ last'.ret.error # Null
       /\ \A v \in votes' : \E row \in polls' :
             row.id = v.poll_id /\ v.option_index \in 0..(Len(row.options) - 1)]_vars

----------------------------------------------------------------------------
(* sanitizeText, under SpecText *)

HasReturned(fn) == san.fn = fn /\ san.done

\* string s holds the protocol name p at position i, in any case of letters
HoldsAt(s, p, i) ==
    /\ i + Len(p) - 1 <= Len(s)
    /\ \A k \in 1..Len(p) : Lower(s[i + k - 1]) = p[k]

ContainsProtocol(s) ==
    \E i \in 1..Len(s) :
        \/ HoldsAt(s, <<"j", "a", "v", "a", "s", "c", "r", "i", "p", "t", ":">>, i)
        \/ HoldsAt(s, <<"d", "a", "t", "a", ":">>, i)

\* C23: the output of sanitizeText contains no occurrence of 'javascript:' or
\* 'data:' in any case of letters, also when the occurrence forms only after
\* tags, other occurrences or control characters have been removed.
C23_NoProtocolLeft ==
    HasReturned("sanitizeText") => ~ContainsProtocol(san.out)

ContainsTag(s) == \E i, j \in 1..Len(s) : i < j /\ s[i] = "<" /\ s[j] = ">"
ContainsControl(s) == \E i \in 1..Len(s) : s[i] \in {"NUL", "TAB", "LF", "DEL"}
Surrounded(s) == s # <<>> /\ (s[1] = " " \/ s[Len(s)] = " ")

\* C24: the output of sanitizeText contains no '<' followed later by a '>',
\* no control character and no leading or trailing whitespace; an input with
\* no tag, protocol name, control character or surrounding whitespace is
\* returned unchanged.
C24_CleanOutput ==
    HasReturned("sanitizeText") =>
        /\ ~ContainsTag(san.out)
        /\ ~ContainsControl(san.out)
        /\ ~Surrounded(san.out)
        /\ ( /\ ~ContainsTag(san.arg) /\ ~ContainsProtocol(san.arg)
             /\ ~ContainsControl(san.arg) /\ ~Surrounded(san.arg) )
           => san.out = san.arg

\* a text with a tag, a control character and blanks around it came back as
\* its plain text
C24_Witness ==
    /\ HasReturned("sanitizeText")
    /\ ContainsTag(san.arg) /\ ContainsControl(san.arg) /\ Surrounded(san.arg)
    /\ san.out = <<"x">>

----------------------------------------------------------------------------
(* sanitizeText on the wrapped payloads of the test page, under SpecPayload *)

\* C25: for input '<script>' + X + '</script>' + Y, 'javascript:' + X + Y and
\* 'data:' + X + Y the result of sanitizeText is the trailing plain text Y.
C25_PayloadRemoved ==
    HasReturned("sanitizeText") => san.out = san.trailer

----------------------------------------------------------------------------
(* sanitizeStringArray, under SpecArray *)

\* the non-empty values sanitizeText(x) for the x of items, in their order
RECURSIVE NonEmptySanitized(_)
NonEmptySanitized(items) ==
    IF items = <<>> THEN <<>>
    ELSE (IF sanitizeText(Head(items)) = <<>> THEN <<>>
          ELSE <<sanitizeText(Head(items))>>) \o NonEmptySanitized(Tail(items))

\* C26: sanitizeStringArray(inputs) returns, in the original order, the
\* non-empty values sanitizeText(x) for x in inputs; the result has no empty
\* string and is not longer than the input; it is [] when the argument is
\* not an array.
C26_ArraySanitized ==
    HasReturned("sanitizeStringArray") =>
        IF san.arg.isArray
        THEN /\ san.out = NonEmptySanitized(san.arg.items)
             /\ \A i \in 1..Len(san.out) : san.out[i] # <<>>
             /\ Len(san.out) <= Len(san.arg.items)
        ELSE san.out = <<>>

\* an array with an element that is blank after sanitization came back
\* shorter, its other elements sanitized and in order
C26_Witness ==
    /\ HasReturned("sanitizeStringArray") /\ san.arg.isArray
    /\ san.arg.items = << <<" ", "y", " ">>, <<"<", "b", ">">>, <<"x">> >>
    /\ san.out = << <<"y">>, <<"x">> >>

----------------------------------------------------------------------------
(* updateSession, under SpecMw *)

\* the path begins with /login or /auth
OpenPath(q) == q.path # <<>> /\ q.path[1] \in {"/login", "/auth"}

----------------------------------------------------------------------------
(* PollCreateForm, under SpecForm *)

\* C28: the options list of PollCreateForm has at least 2 entries in every
\* reachable state, whatever addOption, handleOptionChange and removeOption
\* calls are made, several removeOption calls from one render included.
C28_AtLeastTwoOptions == Len(ui.options) >= 2

====
